---- MODULE Spec2Model ----
(***************************************************************************)
(* Model of crash/commands/files.py (py-crash): the "files" command        *)
(* plugin.  The module builds an argparse parser, registers a command      *)
(* object with the host, and its execute method formats the header of the  *)
(* open-files listing.                                                     *)
(*                                                                         *)
(* Strings that are only compared are TLA+ strings; strings whose layout   *)
(* matters (the header, the padded labels) are sequences of characters.    *)
(***************************************************************************)
EXTENDS Integers, Sequences, FiniteSets, TLC

VARIABLES
    pc,        \* "unloaded" | "prompt" | "returned": where the host is
    image,     \* the inspected memory image: task -> set of open fds
    current,   \* the host's current context (a task)
    globals,   \* the module's global namespace: name -> value
    commands,  \* the host's command registry: sequence of registered names
    parser,    \* the parser handed to CrashCommand.__init__
    parsed,    \* "none" | "accepted" | "usage_error": outcome of parse_args
    entered,   \* whether execute was entered by the last invocation
    argv,      \* the Namespace execute was called with
    locals,    \* execute's local names when it ended: name -> value
    exc,       \* the exception the last invocation ended with, or NoExc
    stdout     \* the lines the last invocation printed

vars == <<pc, image, current, globals, commands, parser, parsed, entered,
          argv, locals, exc, stdout>>

----------------------------------------------------------------------------
(* Bounds *)

\* longest command line, in words
MaxArgc == 4
\* highest file descriptor number of the image
MaxFd == 1

Tasks == {"1", "2"}
Fds == 0 .. MaxFd
Tokens == {"-d", "-R"} \cup Tasks

RECURSIVE SeqsUpTo(_, _)
SeqsUpTo(S, n) ==
    IF n = 0 THEN {<<>>}
    ELSE LET shorter == SeqsUpTo(S, n - 1)
         IN  shorter \cup {Append(s, x) : s \in {t \in shorter : Len(t) = n - 1}, x \in S}

CommandLines == SeqsUpTo(Tokens, MaxArgc)
Images == [Tasks -> SUBSET Fds]

----------------------------------------------------------------------------
(* Python values *)

None == <<>>
NoExc == "None"
Unbound == "<unbound>"
NoParser == [prog |-> "", options |-> {}, positional |-> "", usage |-> ""]
NoArgv == [d |-> None, R |-> None, args |-> <<>>]
NoLocals == [n \in {} |-> ""]

Chars(s) ==
    CASE s = "FILE"   -> <<"F", "I", "L", "E">>
      [] s = "DENTRY" -> <<"D", "E", "N", "T", "R", "Y">>
      [] s = "INODE"  -> <<"I", "N", "O", "D", "E">>
      [] s = " FD"    -> <<" ", "F", "D">>
      [] s = "TYPE PATH" -> <<"T", "Y", "P", "E", " ", "P", "A", "T", "H">>

Spaces(n) == [i \in 1 .. n |-> " "]

\* "{1:^{0}}".format(width, label): the label centred in width characters;
\* an odd padding puts the extra space on the right, and a label longer
\* than the width is left as it is.
vaddrfmt_format(width, label) ==
    LET s == Chars(label)
        pad == IF width > Len(s) THEN width - Len(s) ELSE 0
        left == pad \div 2
    IN  Spaces(left) \o s \o Spaces(pad - left)

\* " FD %s %s %s TYPE PATH" % (file, dentry, inode)
files_header(sz) ==
    Chars(" FD") \o <<" ">> \o vaddrfmt_format(sz, "FILE") \o <<" ">>
        \o vaddrfmt_format(sz, "DENTRY") \o <<" ">>
        \o vaddrfmt_format(sz, "INODE") \o <<" ">> \o Chars("TYPE PATH")

----------------------------------------------------------------------------
(* Import of the module: lines 4-10 bind the globals, the class statement  *)
(* binds FilesCommand, line 136 constructs the command.                    *)

ModuleGlobals ==
    [n \in {"gdb", "CrashCommand", "argparse", "get_value", "charp", "FilesCommand"} |->
        CASE n = "gdb" -> "module"
          [] n = "argparse" -> "module"
          [] n = "CrashCommand" -> "class"
          [] n = "FilesCommand" -> "class"
          [] n = "get_value" -> "function"
          [] n = "charp" -> "gdb.Type"]

\* FilesCommand.__init__: the parser it builds.
FilesParser ==
    [prog |-> "files",
     options |-> {[flag |-> "-d", dest |-> "d", nargs |-> 1],
                  [flag |-> "-R", dest |-> "R", nargs |-> 1]},
     positional |-> "args",
     usage |-> "files [-d dentry] | [-R reference] [pid | taskp] ...\n"]

\* CrashCommand.__init__(self, name, parser): keeps the parser and registers
\* the command with the host under the name it is given.
CrashCommand__init__(name, p) ==
    /\ parser' = p
    /\ commands' = Append(commands, name)

FilesCommand__init__ == CrashCommand__init__("files", FilesParser)

ImportModule ==
    /\ pc = "unloaded"
    /\ globals' = ModuleGlobals
    /\ FilesCommand__init__
    /\ pc' = "prompt"
    /\ UNCHANGED <<image, current, parsed, entered, argv, locals, exc, stdout>>

----------------------------------------------------------------------------
(* argparse's parse_args for the parser above: options -d and -R take one  *)
(* word each (the last occurrence wins), the first word that is not an     *)
(* option starts the REMAINDER, which takes every word after it.           *)

OptionStrings(p) == {o.flag : o \in p.options}

SetDest(ns, flag, value) ==
    IF flag = "-d" THEN [ns EXCEPT !.d = value] ELSE [ns EXCEPT !.R = value]

RECURSIVE ParseFrom(_, _, _, _)
ParseFrom(p, words, i, ns) ==
    IF i > Len(words) THEN [ok |-> TRUE, ns |-> ns]
    ELSE IF words[i] \in OptionStrings(p)
         THEN IF i + 1 > Len(words) \/ words[i + 1] \in OptionStrings(p)
              THEN [ok |-> FALSE, ns |-> NoArgv]
              ELSE ParseFrom(p, words, i + 2, SetDest(ns, words[i], <<words[i + 1]>>))
         ELSE [ok |-> TRUE, ns |-> [ns EXCEPT !.args = SubSeq(words, i, Len(words))]]

parse_args(p, words) == ParseFrom(p, words, 1, NoArgv)

----------------------------------------------------------------------------
(* FilesCommand.execute *)

\* Python's name resolution inside execute: the function's locals, then the
\* module's globals (sz is no builtin).
Lookup(name, loc, glob) ==
    IF name \in DOMAIN loc THEN loc[name]
    ELSE IF name \in DOMAIN glob THEN glob[name]
    ELSE Unbound

\* execute_body with a context line printed ahead of everything else.
execute_body_context(img, cur, glob, ns) ==
    [stdout |-> <<<<"PID", cur, <<cur>>>>>>, exc |-> "NameError",
     locals |-> [n \in {"self", "argv", "vaddrfmt"} |-> "object"]]

\* The body of execute as a function of what it can read: the memory image,
\* the current context, the module's globals and argv.  It binds vaddrfmt,
\* then evaluates the arguments of the first vaddrfmt.format call, where the
\* read of sz raises NameError when sz is unbound; otherwise it binds
\* files_header.  It prints nothing.
execute_body(img, cur, glob, ns) ==
    LET loc1 == [n \in {"self", "argv", "vaddrfmt"} |->
                    CASE n = "self" -> "FilesCommand object"
                      [] n = "argv" -> "Namespace"
                      [] n = "vaddrfmt" -> "{1:^{0}}"]
        sz == Lookup("sz", loc1, glob)
    IN  IF sz = Unbound
        THEN [stdout |-> <<>>, exc |-> "NameError", locals |-> loc1]
        ELSE [stdout |-> <<>>, exc |-> NoExc,
              locals |-> [n \in DOMAIN loc1 \cup {"files_header"} |->
                            IF n = "files_header" THEN files_header(sz) ELSE loc1[n]]]

\* execute that selects the first pid argument as the host's current
\* context and does not restore it.
execute_select(ns) ==
    LET r == [stdout |-> <<>>, exc |-> "NameError",
              locals |-> [n \in {"self", "argv", "vaddrfmt"} |-> "object"]]
    IN  /\ entered' = TRUE
        /\ argv' = ns
        /\ locals' = r.locals
        /\ exc' = r.exc
        /\ stdout' = r.stdout
        /\ current' = IF ns.args # <<>> /\ ns.args[1] \in Tasks THEN ns.args[1] ELSE current
        /\ UNCHANGED <<image, globals, commands, parser>>

execute(ns) ==
    LET r == execute_body(image, current, globals, ns)
    IN  /\ entered' = TRUE
        /\ argv' = ns
        /\ locals' = r.locals
        /\ exc' = r.exc
        /\ stdout' = r.stdout
        /\ UNCHANGED <<image, current, globals, commands, parser>>

\* CrashCommand.invoke: the host hands the command line over; it is parsed
\* with the command's parser and, unless parsing fails, execute is called.
Invoke(words) ==
    /\ pc = "prompt"
    /\ pc' = "returned"
    /\ LET r == parse_args(parser, words)
       IN  IF r.ok
           THEN parsed' = "accepted" /\ execute(r.ns)
           ELSE /\ parsed' = "usage_error"
                /\ exc' = "SystemExit"
                /\ UNCHANGED <<image, current, globals, commands, parser,
                               entered, argv, locals, stdout>>

\* The host is back at its prompt: the frame of the call is gone.
Return ==
    /\ pc = "returned"
    /\ pc' = "prompt"
    /\ parsed' = "none"
    /\ entered' = FALSE
    /\ argv' = NoArgv
    /\ locals' = NoLocals
    /\ exc' = NoExc
    /\ stdout' = <<>>
    /\ UNCHANGED <<image, current, globals, commands, parser>>

----------------------------------------------------------------------------

Init ==
    /\ pc = "unloaded"
    /\ image \in Images
    /\ current \in Tasks
    /\ globals = [n \in {} |-> ""]
    /\ commands = <<>>
    /\ parser = NoParser
    /\ parsed = "none"
    /\ entered = FALSE
    /\ argv = NoArgv
    /\ locals = NoLocals
    /\ exc = NoExc
    /\ stdout = <<>>

Next ==
    \/ ImportModule
    \/ \E words \in CommandLines : Invoke(words)
    \/ Return

Spec == Init /\ [][Next]_vars

----------------------------------------------------------------------------
(* What the documentation of the command (its docstring, lines 13-116)     *)
(* says a run prints.  A printed line is <<kind, context, fields>>: the    *)
(* context is the task the line was printed for ("-" for a line that       *)
(* belongs to no context).                                                 *)

FdName(fd) == CASE fd = 0 -> "0" [] fd = 1 -> "1" [] fd = 2 -> "2" [] OTHER -> "n"
HexAddr(word) == CASE word = "1" -> 1 [] word = "2" -> 2 [] OTHER -> 0
TaskNo(t) == HexAddr(t)

DentryOf(fd) == fd + 1
InodeOf(fd) == 16 + fd
FileStructOf(t, fd) == 32 + 8 * TaskNo(t) + fd
PathOf(fd) == <<"dev", "pts", FdName(fd)>>
Range(f) == {f[i] : i \in DOMAIN f}

DocPidLine(t) == <<"PID", t, <<t>>>>
DocRootCwdLine(t) == <<"ROOTCWD", t, <<"/", "/">>>>
DocHeaderLine(t) == <<"HEADER", t, <<"FD", "FILE", "DENTRY", "INODE", "TYPE", "PATH">>>>
DocFdRow(t, fd) ==
    <<"FD", t, <<fd, FileStructOf(t, fd), DentryOf(fd), InodeOf(fd), "CHR", PathOf(fd)>>>>
DocDentryRow(addr) ==
    <<"DENTRY", "-", <<addr, InodeOf(addr - 1), "SUPERBLK", "CHR", PathOf(addr - 1)>>>>

\* the rows of the fds in S, in ascending fd order
RECURSIVE DocRows(_, _, _)
DocRows(t, S, fd) ==
    IF fd > MaxFd THEN <<>>
    ELSE (IF fd \in S THEN <<DocFdRow(t, fd)>> ELSE <<>>) \o DocRows(t, S, fd + 1)

DocRefMatches(ref, t, fd) ==
    \/ ref = FdName(fd)
    \/ ref \in Range(PathOf(fd))
    \/ HexAddr(ref) \in {DentryOf(fd), InodeOf(fd), FileStructOf(t, fd)}

DocBlock(img, t, S) ==
    <<DocPidLine(t), DocRootCwdLine(t), DocHeaderLine(t)>> \o DocRows(t, S, 0)

RECURSIVE DocBlocks(_, _)
DocBlocks(img, ts) ==
    IF ts = <<>> THEN <<>>
    ELSE DocBlock(img, Head(ts), img[Head(ts)]) \o DocBlocks(img, Tail(ts))

\* the contexts a run is about: the pid arguments, or the current context
DocTargets(ns, cur) == IF ns.args = <<>> THEN <<cur>> ELSE ns.args

IsPidLine(l) == l[1] = "PID"
NotPidLine(l) == l[1] # "PID"
IsFdRow(l) == l[1] = "FD"
IsDentryRow(l) == l[1] = "DENTRY"

Ran == pc = "returned" /\ entered
PidArgs(ns) == \A i \in 1 .. Len(ns.args) : ns.args[i] \in Tasks
Plain(ns) == ns.d = None /\ ns.R = None /\ PidArgs(ns)

----------------------------------------------------------------------------
(* Claims *)

\* C1: a run with neither -d nor -R prints, for every context it is run on
\* and in this order, the ROOT/CWD line, the column header and exactly one
\* row per open file descriptor of that context, in ascending fd order, and
\* no row for a descriptor that is not open.
C1_ListingPerContext ==
    (Ran /\ Plain(argv)) =>
        SelectSeq(stdout, NotPidLine)
            = SelectSeq(DocBlocks(image, DocTargets(argv, current)), NotPidLine)

\* C2: with no pid or taskp argument (and neither -d nor -R) the run reports
\* the open files of the current context, and of no other context.
C2_DefaultsToCurrentContext ==
    (Ran /\ Plain(argv) /\ argv.args = <<>>) =>
        /\ {l[2] : l \in Range(stdout)} = {current}
        /\ SelectSeq(stdout, IsFdRow) = DocRows(current, image[current], 0)

\* C3: with -d <dentry> the run prints one row holding the dentry address,
\* its inode, its super block, its file type and its pathname, and no line
\* that belongs to a context.
C3_DentryRow ==
    (Ran /\ argv.d # None) =>
        /\ SelectSeq(stdout, IsDentryRow) = <<DocDentryRow(HexAddr(argv.d[1]))>>
        /\ \A l \in Range(stdout) : l[2] = "-"

\* C4: -d is not context specific: the output (and the outcome) of a run
\* with -d is the one the same command line gives under any other current
\* context and with any other pid arguments.
C4_DentryContextFree ==
    (Ran /\ argv.d # None) =>
        \A c \in Tasks, a \in SeqsUpTo(Tasks, MaxArgc - 2) :
            LET other == execute_body(image, c, globals, [argv EXCEPT !.args = a])
            IN  other.stdout = stdout /\ other.exc = exc

C4_Witness == Ran /\ argv.d # None /\ argv.args # <<>> /\ argv.args[1] # current

\* C5: with -R <reference>, for every context searched, the row of a file
\* descriptor is printed if and only if the descriptor is open and the
\* reference matches it.
C5_ReferenceRows ==
    (Ran /\ argv.R # None /\ argv.d = None /\ PidArgs(argv)) =>
        \A i \in 1 .. Len(DocTargets(argv, current)), fd \in Fds :
            LET t == DocTargets(argv, current)[i]
            IN  (DocFdRow(t, fd) \in Range(stdout))
                    <=> (fd \in image[t] /\ DocRefMatches(argv.R[1], t, fd))

\* C6: with several pid arguments the run prints one complete block per
\* argument (PID line, ROOT/CWD line, header, fd rows), the blocks in the
\* order of the arguments and never interleaved.
C6_BlocksInArgumentOrder ==
    (Ran /\ Plain(argv) /\ Len(argv.args) >= 2) =>
        stdout = DocBlocks(image, argv.args)

\* C7: a command line that gives both -d and -R is not accepted.
C7_OptionsExclusive ==
    (pc = "returned" /\ parsed = "accepted") => ~(argv.d # None /\ argv.R # None)

\* C8: execute runs to completion without raising: sz is bound when it is
\* read, and files_header is built with FILE, DENTRY and INODE each centred
\* in a field of sz characters, the fields separated by single spaces.
C8_ExecuteCompletes ==
    Ran =>
        /\ exc = NoExc
        /\ Lookup("sz", locals, globals) # Unbound
        /\ "files_header" \in DOMAIN locals
        /\ locals["files_header"] = files_header(Lookup("sz", locals, globals))

====
